---- MODULE Spec2Model ----
(***************************************************************************)
(* The Live Conversation panel (components/features/LiveConversation):     *)
(* the React state and refs of the component, the platform objects they    *)
(* point to (microphone streams, audio contexts, capture nodes, buffer     *)
(* sources, remote sessions), and one action per event the component       *)
(* handles.  Every handler is an operator from a world (state, refs,       *)
(* platform) to a world, composed as the code composes its statements.     *)
(***************************************************************************)
EXTENDS Integers, Sequences, FiniteSets, TLC

\* Bounds of the model.
MaxStarts == 3
MaxFragments == 3
MaxTime == 1
MaxFrames == 2
\* Samples are the multiples of 1 / (SampleGrid * Scale) in [-1, 1].
SampleGrid == 2
MaxSends == 2
MaxGeo == 2
MaxCalls == 2
MaxSelects == 1

\* A ref that holds null.
NULL == 0

Ids == 1..MaxStarts

NoError == "null"
MicMessage == "Could not access microphone. Please grant permission and try again."
ConnMessage == "A connection error occurred."

VARIABLES st, ref, env, obs, chat, media

vars == <<st, ref, env, obs, chat, media>>

World == [st |-> st, ref |-> ref, env |-> env]

----------------------------------------------------------------------------
\* Construction

NoCall == [pc |-> "none", userTranscript |-> <<>>, aiTranscript |-> <<>>]

NoSession == [promise |-> "none", socket |-> "none", thenClose |-> 0, closes |-> 0]

InitSt ==
    [isConnecting |-> FALSE, isActive |-> FALSE, error |-> NoError,
     userTranscript |-> <<>>, aiTranscript |-> <<>>, transcriptHistory |-> <<>>]

InitRef ==
    [sessionPromiseRef |-> NULL, streamRef |-> NULL,
     inputAudioContextRef |-> NULL, outputAudioContextRef |-> NULL,
     scriptProcessorRef |-> NULL, mediaStreamSourceRef |-> NULL,
     nextStartTimeRef |-> 0, audioSourcesRef |-> {}]

InitEnv(key) ==
    [mounted |-> TRUE, apiKey |-> key,
     calls |-> [k \in Ids |-> NoCall],
     streams |-> [k \in Ids |-> [state |-> "none", stops |-> 0]],
     inputContexts |-> [k \in Ids |-> [state |-> "none", closes |-> 0]],
     outputContexts |-> [k \in Ids |-> [state |-> "none", closes |-> 0, currentTime |-> 0]],
     sessions |-> [k \in Ids |-> NoSession],
     connects |-> 0,
     nodes |-> <<>>,
     sources |-> <<>>,
     decoding |-> {},
     fragments |-> 0,
     frames |-> 0,
     outbox |-> [k \in Ids |-> [queued |-> <<>>, sent |-> <<>>]],
     inputData |-> 0,
     int16 |-> 0]

----------------------------------------------------------------------------
\* React state

\* A state setter; React drops the update of an unmounted component.
SetState(w, f, v) == IF w.env.mounted THEN [w EXCEPT !.st[f] = v] ELSE w

Status(s) ==
    IF s.isConnecting THEN "Connecting" ELSE IF s.isActive THEN "Active" ELSE "Idle"

Starts(e) == Cardinality({k \in Ids : e.calls[k].pc # "none"})

----------------------------------------------------------------------------
\* stopConversation

\* promise.then(session => session.close()): runs at once on a resolved
\* promise, waits on a pending one, never runs on a rejected one.
ThenClose(s) ==
    IF s.promise = "resolved"
    THEN [s EXCEPT !.closes = @ + 1,
                   !.socket = IF @ = "open" THEN "closing" ELSE @]
    ELSE IF s.promise = "pending" THEN [s EXCEPT !.thenClose = @ + 1]
    ELSE s

CloseSession(w) ==
    LET k == w.ref.sessionPromiseRef IN
    IF k = NULL THEN w
    ELSE [w EXCEPT !.env.sessions[k] = ThenClose(@), !.ref.sessionPromiseRef = NULL]

\* A faulty variant: the stream is forgotten with its tracks running.
StopTracksForgets(w) == [w EXCEPT !.ref.streamRef = NULL]

StopTracks(w) ==
    LET k == w.ref.streamRef IN
    IF k = NULL THEN w
    ELSE [w EXCEPT !.env.streams[k] = [state |-> "stopped", stops |-> @.stops + 1],
                   !.ref.streamRef = NULL]

DisconnectProcessor(w) ==
    LET n == w.ref.scriptProcessorRef IN
    IF n = NULL THEN w
    ELSE [w EXCEPT !.env.nodes[n].processor = "disconnected",
                   !.env.nodes[n].processorDisconnects = @ + 1,
                   !.ref.scriptProcessorRef = NULL]

DisconnectSource(w) ==
    LET n == w.ref.mediaStreamSourceRef IN
    IF n = NULL THEN w
    ELSE [w EXCEPT !.env.nodes[n].source = "disconnected",
                   !.env.nodes[n].sourceDisconnects = @ + 1,
                   !.ref.mediaStreamSourceRef = NULL]

\* A faulty variant: the context is closed and the ref keeps pointing to it,
\* with no look at its state.
CloseInputKeepsRef(w) ==
    LET k == w.ref.inputAudioContextRef IN
    IF k # NULL
    THEN [w EXCEPT !.env.inputContexts[k] = [state |-> "closed", closes |-> @.closes + 1]]
    ELSE w

CloseInput(w) ==
    LET k == w.ref.inputAudioContextRef IN
    IF k # NULL /\ w.env.inputContexts[k].state # "closed"
    THEN [w EXCEPT !.env.inputContexts[k] = [state |-> "closed", closes |-> @.closes + 1],
                   !.ref.inputAudioContextRef = NULL]
    ELSE w

CloseOutput(w) ==
    LET k == w.ref.outputAudioContextRef IN
    IF k # NULL /\ w.env.outputContexts[k].state # "closed"
    THEN [w EXCEPT !.env.outputContexts[k].state = "closed",
                   !.env.outputContexts[k].closes = @ + 1,
                   !.ref.outputAudioContextRef = NULL]
    ELSE w

\* source.stop() on every member of the set, then the set is emptied.
StopSources(w) ==
    [w EXCEPT !.env.sources =
                  [c \in DOMAIN @ |->
                      IF c \in w.ref.audioSourcesRef
                      THEN [@[c] EXCEPT !.state = "stopped", !.stops = @ + 1]
                      ELSE @[c]],
              !.ref.audioSourcesRef = {}]

ResetCursor(w) == [w EXCEPT !.ref.nextStartTimeRef = 0]

stopConversation(w) ==
    LET w1 == CloseSession(w)
        w2 == StopTracks(w1)
        w3 == DisconnectProcessor(w2)
        w4 == DisconnectSource(w3)
        w5 == CloseInput(w4)
        w6 == CloseOutput(w5)
        w7 == ResetCursor(StopSources(w6))
    IN  SetState(SetState(w7, "isActive", FALSE), "isConnecting", FALSE)

----------------------------------------------------------------------------
\* startConversation

\* Up to the await of getUserMedia.  The handleMessage this call will hand
\* to the session is the one of the render that was clicked: it closes over
\* that render's userTranscript and aiTranscript.
startConversation(w, k) ==
    LET w1 == SetState(SetState(w, "isConnecting", TRUE), "error", NoError)
    IN  [w1 EXCEPT !.env.calls[k] =
            [pc |-> "awaitMic",
             userTranscript |-> w.st.userTranscript,
             aiTranscript |-> w.st.aiTranscript]]

\* The catch block.
catchStart(w) ==
    SetState(SetState(w, "error", MicMessage), "isConnecting", FALSE)

\* An async function: a failure inside it rejects the promise it returns.
startLiveConversation(key) ==
    IF key
    THEN [promise |-> "pending", socket |-> "connecting", thenClose |-> 0, closes |-> 0]
    ELSE [promise |-> "rejected", socket |-> "none", thenClose |-> 0, closes |-> 0]

\* After getUserMedia resolved; audio says which AudioContext constructor,
\* if any, throws.
resumeStart(w, k, audio) ==
    LET w0 == [w EXCEPT !.env.calls[k].pc = "done"]
        w1 == [w0 EXCEPT !.ref.streamRef = k, !.env.streams[k].state = "live"]
        w2 == [w1 EXCEPT !.ref.inputAudioContextRef = k,
                         !.env.inputContexts[k].state = "running"]
        w3 == [w2 EXCEPT !.ref.outputAudioContextRef = k,
                         !.env.outputContexts[k].state = "running"]
    IN  IF audio = "inputThrows" THEN catchStart(w1)
        ELSE IF audio = "outputThrows" THEN catchStart(w2)
        ELSE [w3 EXCEPT !.ref.sessionPromiseRef = k,
                        !.env.sessions[k] = startLiveConversation(w.env.apiKey),
                        !.env.connects = @ + (IF w.env.apiKey THEN 1 ELSE 0)]

\* getUserMedia rejected.
rejectStart(w, k) == catchStart([w EXCEPT !.env.calls[k].pc = "done"])

----------------------------------------------------------------------------
\* The session's callbacks

onOpen(w) ==
    IF w.ref.streamRef = NULL \/ w.ref.inputAudioContextRef = NULL THEN w
    ELSE LET w1 == SetState(SetState(w, "isActive", TRUE), "isConnecting", FALSE)
             n == Len(w.env.nodes) + 1
             node == [context |-> w.ref.inputAudioContextRef,
                      stream |-> w.ref.streamRef,
                      source |-> "connected", processor |-> "connected",
                      sourceDisconnects |-> 0, processorDisconnects |-> 0]
         IN  [w1 EXCEPT !.env.nodes = Append(@, node),
                        !.ref.mediaStreamSourceRef = n,
                        !.ref.scriptProcessorRef = n]

\* int16[i] = inputData[i] * 32768.  A sample is kept as its numerator a
\* over SampleGrid * Scale, so the product is a / SampleGrid; the store
\* into an Int16Array slot drops the fraction and keeps the low 16 bits.
Scale == 32768

Trunc(a, g) == IF a >= 0 THEN a \div g ELSE -((-a) \div g)

ToInt16(x) ==
    LET low == x % (2 * Scale)
    IN  IF low >= Scale THEN low - 2 * Scale ELSE low

Quantized(a) == ToInt16(Trunc(a, SampleGrid))

\* session.sendRealtimeInput: the frame goes out on the session's socket.
\* A faulty variant first: the newest frame overtakes the ones before it.
sendRealtimeInputFirst(box, f) == [box EXCEPT !.sent = <<f>> \o @]

sendRealtimeInput(box, f) == [box EXCEPT !.sent = Append(@, f)]

\* The onaudioprocess handler for captured frame f: the frame is handed to
\* the session promise the ref holds at that moment.  On a resolved promise
\* the callback runs at once (a socket no longer open sends nothing), on a
\* pending one it waits for the resolution, on a rejected one it never runs.
onaudioprocess(w, f) ==
    LET k == w.ref.sessionPromiseRef
        w1 == [w EXCEPT !.env.frames = f]
    IN  IF k = NULL THEN w1
        ELSE IF w.env.sessions[k].promise = "pending"
        THEN [w1 EXCEPT !.env.outbox[k].queued = Append(@, f)]
        ELSE IF w.env.sessions[k].promise = "resolved" /\ w.env.sessions[k].socket = "open"
        THEN [w1 EXCEPT !.env.outbox[k] = sendRealtimeInput(@, f)]
        ELSE w1

\* The frames that waited on the connect promise of session k go out, in
\* the order their callbacks were registered.
RECURSIVE SendQueued(_, _)
SendQueued(box, q) ==
    IF q = <<>> THEN [box EXCEPT !.queued = <<>>]
    ELSE SendQueued(sendRealtimeInput(box, Head(q)), Tail(q))

\* A faulty variant: the error handler connects again after the teardown.
onErrorReconnects(w) ==
    LET w1 == stopConversation(SetState(w, "error", ConnMessage))
    IN  [w1 EXCEPT !.env.connects = @ + 1]

onError(w) == stopConversation(SetState(w, "error", ConnMessage))

\* A faulty variant: the close of the socket is ignored.
onCloseIgnores(w) == w

onClose(w) == stopConversation(w)

\* The connect promise resolves once the socket is open: the callbacks that
\* waited on it run.
Resolve(s) ==
    IF s.thenClose > 0
    THEN [s EXCEPT !.promise = "resolved", !.socket = "closing",
                   !.closes = @ + s.thenClose, !.thenClose = 0]
    ELSE [s EXCEPT !.promise = "resolved", !.socket = "open"]


----------------------------------------------------------------------------
\* handleMessage

Max(a, b) == IF a >= b THEN a ELSE b

\* An inbound fragment: which transcript deltas it carries, whether it
\* completes the turn, the duration of its audio payload (0: none), whether
\* it signals an interruption.
Fragment(ai, user, turn, audio, interrupted) ==
    [ai |-> ai, user |-> user, turn |-> turn, audio |-> audio, interrupted |-> interrupted]

\* The durations of the audio payloads delivered.
Durations == {1, 2}

AiDelta == Fragment(TRUE, FALSE, FALSE, 0, FALSE)
UserDelta == Fragment(FALSE, TRUE, FALSE, 0, FALSE)
TurnComplete == Fragment(FALSE, FALSE, TRUE, 0, FALSE)
Interrupted == Fragment(FALSE, FALSE, FALSE, 0, TRUE)
Audio(d) == Fragment(FALSE, FALSE, FALSE, d, FALSE)

\* The shapes delivered while the whole life of the panel is explored.
LifeFragments == {AiDelta, Audio(1)}

\* The shapes delivered to follow the transcript of a session.
TurnFragments ==
    {AiDelta, UserDelta, TurnComplete, Fragment(TRUE, FALSE, TRUE, 0, FALSE),
     Audio(1), Interrupted}

\* The shapes delivered to follow the playback of a session.
PlayFragments ==
    {Audio(d) : d \in Durations}
    \cup {Interrupted, Fragment(FALSE, FALSE, FALSE, 1, TRUE)}

\* The text of the delta the n-th delivered fragment carries.
Delta(n) == <<n>>

\* A faulty variant: the turn is committed and the partial transcripts stay.
commitTurnKeeps(w, k) ==
    LET turn == [user |-> w.env.calls[k].userTranscript,
                 ai |-> w.env.calls[k].aiTranscript]
    IN  SetState(w, "transcriptHistory", Append(w.st.transcriptHistory, turn))

\* The turn-complete branch.  userTranscript and aiTranscript are the
\* constants of the render whose handleMessage was handed to session k.
commitTurn(w, k) ==
    LET turn == [user |-> w.env.calls[k].userTranscript,
                 ai |-> w.env.calls[k].aiTranscript]
        w1 == SetState(w, "transcriptHistory", Append(w.st.transcriptHistory, turn))
    IN  SetState(SetState(w1, "userTranscript", <<>>), "aiTranscript", <<>>)

\* A faulty variant: the sources are stopped and the cursor is left alone.
interruptKeepsCursor(w) == StopSources(w)

\* The interrupted branch.
interrupt(w) == ResetCursor(StopSources(w))

\* handleMessage up to its await, or to its end when it does not await.
handleMessage(w, k, m) ==
    LET n == w.env.fragments + 1
        w0 == [w EXCEPT !.env.fragments = n]
        w1 == IF m.ai
              THEN SetState(w0, "aiTranscript", w0.st.aiTranscript \o Delta(n))
              ELSE w0
        w2 == IF m.user
              THEN SetState(w1, "userTranscript", w1.st.userTranscript \o Delta(n))
              ELSE w1
        w3 == IF m.turn THEN commitTurn(w2, k) ELSE w2
        c  == w3.ref.outputAudioContextRef
    IN  IF m.audio > 0 /\ c # NULL
        THEN [w3 EXCEPT
                 !.ref.nextStartTimeRef = Max(@, w3.env.outputContexts[c].currentTime),
                 !.env.decoding = @ \cup {[n |-> n, context |-> c, duration |-> m.audio,
                                           interrupted |-> m.interrupted]}]
        ELSE IF m.interrupted THEN interrupt(w3) ELSE w3

\* handleMessage after decodeAudioData resolved.
scheduleChunk(w, d) ==
    LET c == Len(w.env.sources) + 1
        source == [n |-> d.n, context |-> d.context,
                   start |-> w.ref.nextStartTimeRef,
                   at |-> w.env.outputContexts[d.context].currentTime,
                   duration |-> d.duration,
                   state |-> "started", stops |-> 0]
        w1 == [w EXCEPT !.env.decoding = @ \ {d},
                        !.env.sources = Append(@, source),
                        !.ref.nextStartTimeRef = @ + d.duration,
                        !.ref.audioSourcesRef = @ \cup {c}]
    IN  IF d.interrupted THEN interrupt(w1) ELSE w1

\* A faulty variant: a failed decode ends the conversation.
dropChunkStops(w, d) == stopConversation([w EXCEPT !.env.decoding = @ \ {d}])

\* decodeAudioData rejected: the rest of handleMessage does not run.
dropChunk(w, d) == [w EXCEPT !.env.decoding = @ \ {d}]

\* A faulty variant: the listener leaves the set as it is.
onEndedKeeps(w, c) == [w EXCEPT !.env.sources[c].state = "ended"]

\* The 'ended' listener of source c.
onEnded(w, c) ==
    [w EXCEPT !.env.sources[c].state = "ended",
              !.ref.audioSourcesRef = @ \ {c}]

\* When a started source has played to its end.
EndTime(source) == Max(source.start, source.at) + source.duration

----------------------------------------------------------------------------
\* What the sessions sent, kept beside the program to state its contract:
\* heard[k] is the text session k delivered since its last turn-complete,
\* audio[k] whether it delivered audio since then, turns the turns that were
\* completed, in the order they were completed, dropped the fragments whose
\* audio failed to decode, flushed the fragments whose decode is in flight
\* and was so when an interruption or stopConversation was processed.

NoTurn == [user |-> <<>>, ai |-> <<>>]

Heard(o, k, m, n) ==
    [user |-> o.heard[k].user \o (IF m.user THEN Delta(n) ELSE <<>>),
     ai |-> o.heard[k].ai \o (IF m.ai THEN Delta(n) ELSE <<>>)]

Observe(o, k, m, n) ==
    IF m.turn
    THEN [o EXCEPT !.heard[k] = NoTurn,
                   !.audio[k] = FALSE,
                   !.turns = Append(@, Heard(o, k, m, n))]
    ELSE [o EXCEPT !.heard[k] = Heard(o, k, m, n),
                   !.audio[k] = @ \/ m.audio > 0]

\* The fragments in flight are noted when the playback is flushed.
Flush(o, inFlight) == [o EXCEPT !.flushed = @ \cup {d.n : d \in inFlight}]

----------------------------------------------------------------------------
\* The Chat panel (components/features/Chat)

Greeting == [sender |-> "AI", text |-> "greeting"]
Thinking == [sender |-> "AI", text |-> "..."]
Response == [sender |-> "AI", text |-> "response"]
Apology == [sender |-> "AI", text |-> "I'm having a little trouble thinking right now. Please try again later."]
LocationMessage ==
    [sender |-> "System",
     text |-> "Could not get your location for Maps. Please ensure location services are enabled."]
UserMessage(text) == [sender |-> "User", text |-> text]

\* What the user can have typed: nothing, blanks, a question.
Inputs == {"", " ", "hi"}

Trim(text) == IF text = " " THEN "" ELSE text

\* geoPending and geoRequests count the getCurrentPosition calls that are
\* outstanding and that were made, sends the getChatResponse calls made,
\* sending whether one is outstanding.
InitChat ==
    [messages |-> <<Greeting>>, input |-> "", isLoading |-> FALSE,
     useMaps |-> FALSE, geoLocation |-> NULL,
     geoPending |-> 0, geoRequests |-> 0, sends |-> 0, sending |-> FALSE]

\* The form panels are not mounted: the application opens on Chat.
InitMedia == [feature |-> "Chat"]

\* The geolocation effect, run when useMaps or geoLocation changed.
mapsEffect(c) ==
    IF c.useMaps /\ c.geoLocation = NULL
    THEN [c EXCEPT !.geoPending = @ + 1, !.geoRequests = @ + 1]
    ELSE c

\* The Maps mode button.
toggleMaps(c) == mapsEffect([c EXCEPT !.useMaps = ~@])

\* The success callback of getCurrentPosition.
geoSuccess(c) == mapsEffect([c EXCEPT !.geoLocation = 1, !.geoPending = @ - 1])

\* A faulty variant: the message is shown and Maps mode stays on.
geoErrorKeepsMaps(c) ==
    [c EXCEPT !.messages = Append(@, LocationMessage), !.geoPending = @ - 1]

\* The error callback of getCurrentPosition.
geoError(c) ==
    mapsEffect([c EXCEPT !.messages = Append(@, LocationMessage),
                         !.useMaps = FALSE,
                         !.geoPending = @ - 1])

\* handleSendMessage up to the await of getChatResponse.
handleSendMessage(c) ==
    IF Trim(c.input) = "" \/ c.isLoading THEN c
    ELSE [c EXCEPT !.messages = @ \o <<UserMessage(c.input), Thinking>>,
                   !.isLoading = TRUE,
                   !.sends = @ + 1, !.sending = TRUE]

\* prev.slice(0, -1).concat(message)
ReplaceLast(messages, message) ==
    Append(SubSeq(messages, 1, Len(messages) - 1), message)

\* handleSendMessage after the await: the try or the catch, then the reset.
finishSend(c, message) ==
    [c EXCEPT !.messages = ReplaceLast(@, message),
              !.input = "", !.isLoading = FALSE, !.sending = FALSE]

----------------------------------------------------------------------------
\* The Image Generation panel (components/features/ImageGeneration) and the
\* Image Editing panel (components/features/ImageEditing).  op is the
\* service call of the panel that is outstanding, calls counts them.

PromptMessage == "Please enter a prompt."
ImageFailedMessage == "Failed to generate image. Please try again."
EditPromptMessage == "Please upload an image and enter an editing instruction."
EditFailedMessage == "Failed to edit image. Please try again."
ImageSizeMessage == "File size should not exceed 4MB."

InitImage ==
    [feature |-> "ImageGen", prompt |-> "", isLoading |-> FALSE,
     generatedImage |-> NULL, error |-> NoError, calls |-> 0, op |-> "none"]

\* handleGenerate up to the await of generateImage.
handleGenerateImage(m) ==
    IF Trim(m.prompt) = "" THEN [m EXCEPT !.error = PromptMessage]
    ELSE [m EXCEPT !.isLoading = TRUE, !.generatedImage = NULL,
                   !.error = NoError,
                   !.op = "generateImage", !.calls = @ + 1]

\* A faulty variant: the call is over and the panel keeps loading.
finallyImageKeeps(m) == [m EXCEPT !.op = "none"]

\* The finally block of handleGenerate and of handleEdit.
finallyImage(m) == [m EXCEPT !.isLoading = FALSE, !.op = "none"]

\* handleGenerate after the await: the try or the catch, then the finally.
imageSettled(m, ok) ==
    finallyImage(IF ok THEN [m EXCEPT !.generatedImage = 1]
                 ELSE [m EXCEPT !.error = ImageFailedMessage])

InitEdit ==
    [feature |-> "ImageEdit", prompt |-> "", originalImage |-> NULL,
     editedImage |-> NULL, isLoading |-> FALSE, error |-> NoError,
     calls |-> 0, op |-> "none"]

\* handleFileChange of the editing panel.
handleEditFile(m, tooBig) ==
    IF tooBig THEN [m EXCEPT !.error = ImageSizeMessage]
    ELSE [m EXCEPT !.originalImage = 1, !.editedImage = NULL, !.error = NoError]

\* handleEdit up to the await of editImage.
handleEdit(m) ==
    IF Trim(m.prompt) = "" \/ m.originalImage = NULL
    THEN [m EXCEPT !.error = EditPromptMessage]
    ELSE [m EXCEPT !.isLoading = TRUE, !.editedImage = NULL,
                   !.error = NoError,
                   !.op = "editImage", !.calls = @ + 1]

\* handleEdit after the await.
editSettled(m, ok) ==
    finallyImage(IF ok THEN [m EXCEPT !.editedImage = 1]
                 ELSE [m EXCEPT !.error = EditFailedMessage])

----------------------------------------------------------------------------
\* The Video Generation panel (components/features/VideoGeneration) and
\* generateVideo (services/geminiService)

ProgressMessages ==
    <<"Analyzing your prompt...", "Storyboarding the scenes...",
      "Rendering initial frames...", "Applying visual effects...",
      "Compositing the final video...",
      "Almost there, adding finishing touches...">>

NotFound == "Requested entity was not found"
InvalidKeyMessage == "Your API key is invalid or not found. Please select a valid key."
VideoFailedMessage == "Failed to generate video. Please try again."
VideoSizeMessage == "File size should not exceed 16MB."

\* An error message is a sequence of parts; <<>> is an error without one.
NotInitialized == <<"GoogleGenAI not initialized">>
NoLink == <<"Video generation failed, no download link found.">>
NoDownload == <<"Failed to download video: ", "Forbidden">>
ApiErrors == {<<NotFound, ".">>, <<"404 ", NotFound>>, <<"Quota exceeded">>, <<>>}
FetchErrors == {<<"Failed to fetch">>}

\* err.message && err.message.includes(part)
Includes(message, part) ==
    message # <<>> /\ \E i \in 1..Len(message) : message[i] = part

\* op is where the generateVideo call of this panel stands; checking and
\* selecting are the hasSelectedApiKey and openSelectKey calls outstanding;
\* calls counts the generateVideo calls made.
InitVideo ==
    [feature |-> "VideoGen", prompt |-> "", image |-> NULL,
     isLoading |-> FALSE, progressMessage |-> "", generatedVideo |-> NULL,
     error |-> NoError, apiKeySelected |-> FALSE,
     checking |-> TRUE, selecting |-> 0,
     calls |-> 0, op |-> "none", messageIndex |-> 0]

\* checkApiKey after its await.
checkApiKey(m, selected) ==
    [m EXCEPT !.checking = FALSE,
              !.apiKeySelected = IF selected THEN TRUE ELSE @]

\* handleSelectKey after its await.
handleSelectKey(m) == [m EXCEPT !.selecting = @ - 1, !.apiKeySelected = TRUE]

\* handleFileChange of the video panel.
handleVideoFile(m, tooBig) ==
    IF tooBig THEN [m EXCEPT !.error = VideoSizeMessage]
    ELSE [m EXCEPT !.image = 1]

\* generateVideo up to its first await; without an API key it throws.
generateVideo(m, key) ==
    IF ~key THEN [m EXCEPT !.op = "thrown", !.calls = @ + 1]
    ELSE [m EXCEPT !.progressMessage = "Starting video generation...",
                   !.op = "generateVideos", !.calls = @ + 1,
                   !.messageIndex = 0]

\* handleGenerate up to the await of generateVideo.
handleGenerateVideo(m, key) ==
    IF Trim(m.prompt) = "" THEN [m EXCEPT !.error = PromptMessage]
    ELSE generateVideo([m EXCEPT !.isLoading = TRUE,
                                 !.generatedVideo = NULL,
                                 !.error = NoError,
                                 !.progressMessage = "Initiating generation..."],
                       key)

\* The finally block of handleGenerate.
finallyVideo(m) ==
    [m EXCEPT !.isLoading = FALSE, !.progressMessage = "", !.op = "none",
              !.messageIndex = 0]

\* A faulty variant: every failure is taken for an invalid key.
catchVideoAlwaysKey(m, message) ==
    finallyVideo([m EXCEPT !.error = InvalidKeyMessage,
                           !.apiKeySelected = FALSE])

\* The catch block of handleGenerate, then the finally block.
catchVideo(m, message) ==
    finallyVideo(IF Includes(message, NotFound)
                 THEN [m EXCEPT !.error = InvalidKeyMessage,
                                !.apiKeySelected = FALSE]
                 ELSE [m EXCEPT !.error = VideoFailedMessage])

\* The try block of handleGenerate after the await, then the finally block.
videoDone(m) == finallyVideo([m EXCEPT !.generatedVideo = 1])

\* generateVideo with an operation in hand: the while loop, and after it
\* the download link.  The index is kept modulo the number of messages.
pollVideo(m, done, link) ==
    IF ~done
    THEN [m EXCEPT !.progressMessage =
                       ProgressMessages[(m.messageIndex % Len(ProgressMessages)) + 1],
                   !.messageIndex = (@ + 1) % Len(ProgressMessages),
                   !.op = "timer"]
    ELSE IF ~link THEN catchVideo(m, NoLink)
    ELSE [m EXCEPT !.progressMessage = "Video processing complete! Downloading...",
                   !.op = "fetch"]

\* generateVideo with the response of fetch.
fetched(m, ok) ==
    IF ok THEN [m EXCEPT !.op = "blob"] ELSE catchVideo(m, NoDownload)

----------------------------------------------------------------------------
\* Actions

Apply(w) == st' = w.st /\ ref' = w.ref /\ env' = w.env /\ UNCHANGED <<chat, media>>

\* toggleConversation; the button is disabled while connecting.
ToggleStop ==
    /\ env.mounted /\ ~st.isConnecting
    /\ st.isActive \/ st.isConnecting
    /\ Apply(stopConversation(World))
    /\ obs' = Flush(obs, env.decoding)

ToggleStart ==
    /\ env.mounted /\ ~st.isConnecting
    /\ ~(st.isActive \/ st.isConnecting)
    /\ Starts(env) < MaxStarts
    /\ Apply(startConversation(World, Starts(env) + 1))
    /\ UNCHANGED obs

\* The first click on the button after the panel is mounted.
FirstStart == Starts(env) = 0 /\ ToggleStart

Granted(k, audio) ==
    /\ env.calls[k].pc = "awaitMic"
    /\ Apply(resumeStart(World, k, audio))
    /\ UNCHANGED obs

MicGranted(k) == \E audio \in {"ok", "inputThrows", "outputThrows"} : Granted(k, audio)

\* The microphone granted and both audio contexts constructed.
AudioReady(k) == Granted(k, "ok")

MicDenied(k) ==
    /\ env.calls[k].pc = "awaitMic"
    /\ Apply(rejectStart(World, k))
    /\ UNCHANGED obs

RemoteOpen(k) ==
    /\ env.sessions[k].socket = "connecting"
    /\ LET w == onOpen(World) IN
         Apply([w EXCEPT !.env.sessions[k] = Resolve(@),
                         !.env.outbox[k] = SendQueued(@, @.queued)])
    /\ UNCHANGED obs

RemoteError(k) ==
    /\ env.sessions[k].socket \in {"connecting", "open"}
    /\ LET w == onError(World) IN
         Apply([w EXCEPT !.env.sessions[k].socket = "failed"])
    /\ obs' = Flush(obs, env.decoding)

RemoteClose(k) ==
    /\ env.sessions[k].socket \in {"open", "closing", "failed"}
    /\ LET w == onClose(World) IN
         Apply([w EXCEPT !.env.sessions[k].socket = "closed"])
    /\ obs' = Flush(obs, env.decoding)

Deliver(k, m) ==
    /\ env.sessions[k].socket \in {"open", "closing"}
    /\ Apply(handleMessage(World, k, m))
    /\ LET o == Observe(obs, k, m, env.fragments + 1) IN
         obs' = IF m.interrupted /\ ~(m.audio > 0 /\ ref.outputAudioContextRef # NULL)
                THEN Flush(o, env.decoding)
                ELSE o

RemoteMessage(k, m) == env.fragments < MaxFragments /\ Deliver(k, m)

\* The first fragment delivered.
FirstMessage(k, m) == env.fragments = 0 /\ Deliver(k, m)


DecodeDone(d) ==
    /\ Apply(scheduleChunk(World, d))
    /\ LET o == [obs EXCEPT !.flushed = @ \ {d.n}] IN
         obs' = IF d.interrupted THEN Flush(o, env.decoding \ {d}) ELSE o

DecodeFailed(d) ==
    /\ Apply(dropChunk(World, d))
    /\ obs' = [obs EXCEPT !.dropped = @ \cup {d.n}, !.flushed = @ \ {d.n}]

\* The output clock of context k advances.
Tick(k) ==
    /\ env.outputContexts[k].state = "running"
    /\ env.outputContexts[k].currentTime < MaxTime
    /\ Apply([World EXCEPT !.env.outputContexts[k].currentTime = @ + 1])
    /\ UNCHANGED obs

ChunkEnded(c) ==
    /\ env.sources[c].state = "started"
    /\ env.outputContexts[env.sources[c].context].state = "running"
    /\ env.outputContexts[env.sources[c].context].currentTime >= EndTime(env.sources[c])
    /\ Apply(onEnded(World, c))
    /\ UNCHANGED obs

\* The processor of pipeline n fires with the next captured frame.
Capture(n) ==
    /\ env.frames < MaxFrames
    /\ env.nodes[n].source = "connected" /\ env.nodes[n].processor = "connected"
    /\ env.inputContexts[env.nodes[n].context].state = "running"
    /\ Apply(onaudioprocess(World, env.frames + 1))
    /\ UNCHANGED obs

\* The capture callback fills the Int16Array from the captured sample.
Quantize ==
    /\ env.frames = 0
    /\ env' = [env EXCEPT !.int16 = Quantized(env.inputData), !.frames = 1]
    /\ UNCHANGED <<st, ref, obs, chat, media>>

\* The Chat panel's events.
Live == <<st, ref, env, obs>>

TypeInput(text) ==
    /\ ~chat.isLoading /\ chat.input # text
    /\ chat' = [chat EXCEPT !.input = text]
    /\ UNCHANGED <<Live, media>>

ToggleMaps ==
    /\ chat.useMaps \/ chat.geoRequests < MaxGeo
    /\ chat' = toggleMaps(chat)
    /\ UNCHANGED <<Live, media>>

GeoGranted ==
    /\ chat.geoPending > 0
    /\ chat' = geoSuccess(chat)
    /\ UNCHANGED <<Live, media>>

GeoDenied ==
    /\ chat.geoPending > 0
    /\ chat' = geoError(chat)
    /\ UNCHANGED <<Live, media>>

\* The send button or the Enter key; both are disabled while loading.
Send ==
    /\ ~chat.isLoading /\ chat.sends < MaxSends
    /\ chat' = handleSendMessage(chat)
    /\ UNCHANGED <<Live, media>>

SendDone(message) ==
    /\ chat.sending
    /\ chat' = finishSend(chat, message)
    /\ UNCHANGED <<Live, media>>

\* The form panels' events.  Only the selected panel is mounted; selecting
\* another one discards the state of this one, and what its outstanding
\* calls set afterwards is lost.
OnVideo == media.feature = "VideoGen"

SetFeature(panel) ==
    /\ media.feature # panel.feature
    /\ media' = panel
    /\ UNCHANGED <<Live, chat>>

KeyChecked(selected) ==
    /\ OnVideo /\ media.checking
    /\ media' = checkApiKey(media, selected)
    /\ UNCHANGED <<Live, chat>>

SelectKey ==
    /\ OnVideo /\ ~media.apiKeySelected /\ media.selecting < MaxSelects
    /\ media' = [media EXCEPT !.selecting = @ + 1]
    /\ UNCHANGED <<Live, chat>>

KeySelected ==
    /\ OnVideo /\ media.selecting > 0
    /\ media' = handleSelectKey(media)
    /\ UNCHANGED <<Live, chat>>

VideoPrompt(text) ==
    /\ OnVideo /\ media.apiKeySelected /\ media.prompt # text
    /\ media' = [media EXCEPT !.prompt = text]
    /\ UNCHANGED <<Live, chat>>

VideoFile(tooBig) ==
    /\ OnVideo /\ media.apiKeySelected
    /\ media' = handleVideoFile(media, tooBig)
    /\ media' # media
    /\ UNCHANGED <<Live, chat>>

\* The Generate Video button, disabled while loading.
GenerateVideo(key) ==
    /\ OnVideo /\ media.apiKeySelected /\ ~media.isLoading
    /\ media' = handleGenerateVideo(media, key)
    /\ media'.calls <= MaxCalls
    /\ media' # media
    /\ UNCHANGED <<Live, chat>>

\* generateVideos or getVideosOperation answers with an operation.
VideoOperation(done, link) ==
    /\ OnVideo /\ media.op \in {"generateVideos", "getVideosOperation"}
    /\ media' = pollVideo(media, done, link)
    /\ UNCHANGED <<Live, chat>>

\* The ten seconds between two polls are over.
VideoTimer ==
    /\ OnVideo /\ media.op = "timer"
    /\ media' = [media EXCEPT !.op = "getVideosOperation"]
    /\ UNCHANGED <<Live, chat>>

VideoFetched(ok) ==
    /\ OnVideo /\ media.op = "fetch"
    /\ media' = fetched(media, ok)
    /\ UNCHANGED <<Live, chat>>

VideoBlob ==
    /\ OnVideo /\ media.op = "blob"
    /\ media' = videoDone(media)
    /\ UNCHANGED <<Live, chat>>

\* generateVideo throws: no API key, or the call it awaits is rejected.
VideoRejected(message) ==
    /\ OnVideo
    /\ \/ media.op = "thrown" /\ message = NotInitialized
       \/ media.op \in {"generateVideos", "getVideosOperation"} /\ message \in ApiErrors
       \/ media.op \in {"fetch", "blob"} /\ message \in FetchErrors
    /\ media' = catchVideo(media, message)
    /\ UNCHANGED <<Live, chat>>

VideoThrows == \E message \in {NotInitialized} \cup ApiErrors \cup FetchErrors : VideoRejected(message)

\* The effect cleanup.
Unmount ==
    /\ env.mounted
    /\ LET w == stopConversation(World) IN
         Apply([w EXCEPT !.env.mounted = FALSE])
    /\ obs' = Flush(obs, env.decoding)

Init ==
    /\ chat = InitChat /\ media = InitMedia
    /\ st = InitSt
    /\ ref = InitRef
    /\ \E key \in BOOLEAN : env = InitEnv(key)
    /\ obs = [heard |-> [k \in Ids |-> NoTurn], audio |-> [k \in Ids |-> FALSE],
              turns |-> <<>>, dropped |-> {}, flushed |-> {}]

\* The whole life of the panel: sessions started one after another or over
\* one another, one fragment delivered, the output clock standing still.
Next ==
    \/ ToggleStop
    \/ ToggleStart
    \/ \E k \in Ids : MicGranted(k)
    \/ \E k \in Ids : MicDenied(k)
    \/ \E k \in Ids : RemoteOpen(k)
    \/ \E k \in Ids : RemoteError(k)
    \/ \E k \in Ids : RemoteClose(k)
    \/ \E k \in Ids, m \in LifeFragments : FirstMessage(k, m)
    \/ \E d \in env.decoding : DecodeDone(d)
    \/ \E d \in env.decoding : DecodeFailed(d)
    \/ Unmount

Spec == Init /\ [][Next]_vars

\* The starts and stops of the panel with no fragment delivered.  What the
\* program waits for does happen: the permission prompt is answered, a
\* connecting socket opens or fails, a socket that failed or was asked to
\* close reports its close.  The user owes nothing.
NextStart ==
    \/ ToggleStop
    \/ ToggleStart
    \/ \E k \in Ids : MicGranted(k)
    \/ \E k \in Ids : MicDenied(k)
    \/ \E k \in Ids : RemoteOpen(k)
    \/ \E k \in Ids : RemoteError(k)
    \/ \E k \in Ids : RemoteClose(k)
    \/ Unmount

SpecStart ==
    /\ Init /\ [][NextStart]_vars
    /\ WF_vars(\E k \in Ids : MicGranted(k) \/ MicDenied(k))
    /\ WF_vars(\E k \in Ids :
                  env.sessions[k].socket = "connecting"
                  /\ (RemoteOpen(k) \/ RemoteError(k)))
    /\ WF_vars(\E k \in Ids :
                  env.sessions[k].socket \in {"closing", "failed"} /\ RemoteClose(k))

\* One session of a mounted panel, from the first click on: the fragments
\* that carry its transcript.
NextTurns ==
    \/ ToggleStop
    \/ FirstStart
    \/ \E k \in Ids : AudioReady(k)
    \/ \E k \in Ids : RemoteOpen(k)
    \/ \E k \in Ids : RemoteError(k)
    \/ \E k \in Ids : RemoteClose(k)
    \/ \E k \in Ids, m \in TurnFragments : RemoteMessage(k, m)
    \/ \E d \in env.decoding : DecodeDone(d)
    \/ \E d \in env.decoding : DecodeFailed(d)

SpecTurns == Init /\ [][NextTurns]_vars

\* One session of a mounted panel, from the first click on: the fragments
\* that carry its audio, the output clock running.
NextPlayback ==
    \/ ToggleStop
    \/ FirstStart
    \/ \E k \in Ids : AudioReady(k)
    \/ \E k \in Ids : RemoteOpen(k)
    \/ \E k \in Ids : RemoteError(k)
    \/ \E k \in Ids : RemoteClose(k)
    \/ \E k \in Ids, m \in PlayFragments : RemoteMessage(k, m)
    \/ \E d \in env.decoding : DecodeDone(d)
    \/ \E d \in env.decoding : DecodeFailed(d)
    \/ \E k \in Ids : Tick(k)
    \/ \E c \in DOMAIN env.sources : ChunkEnded(c)

SpecPlayback == Init /\ [][NextPlayback]_vars

\* The sessions of a mounted panel with the microphone granted: the frames
\* its capture pipelines forward.
NextCapture ==
    \/ ToggleStop
    \/ ToggleStart
    \/ \E k \in Ids : AudioReady(k)
    \/ \E k \in Ids : RemoteOpen(k)
    \/ \E k \in Ids : RemoteError(k)
    \/ \E k \in Ids : RemoteClose(k)
    \/ \E n \in DOMAIN env.nodes : Capture(n)

SpecCapture == Init /\ [][NextCapture]_vars

\* The Live Conversation panel untouched.
LiveIdle ==
    /\ st = InitSt
    /\ ref = InitRef
    /\ env = InitEnv(TRUE)
    /\ obs = [heard |-> [k \in Ids |-> NoTurn], audio |-> [k \in Ids |-> FALSE],
              turns |-> <<>>, dropped |-> {}, flushed |-> {}]

\* The Chat panel: typing, sending, Maps mode.
InitChatPanel == LiveIdle /\ chat = InitChat /\ media = InitMedia

NextChat ==
    \/ \E text \in Inputs : TypeInput(text)
    \/ ToggleMaps
    \/ GeoGranted
    \/ GeoDenied
    \/ Send
    \/ \E message \in {Response, Apology} : SendDone(message)

SpecChat == InitChatPanel /\ [][NextChat]_vars

\* The Image Generation panel.
OnImage == media.feature = "ImageGen"

ImagePrompt(text) ==
    /\ OnImage /\ media.prompt # text
    /\ media' = [media EXCEPT !.prompt = text]
    /\ UNCHANGED <<Live, chat>>

\* The Generate Image button, disabled while loading.
GenerateImage ==
    /\ OnImage /\ ~media.isLoading
    /\ media' = handleGenerateImage(media)
    /\ media'.calls <= MaxCalls
    /\ media' # media
    /\ UNCHANGED <<Live, chat>>

ImageSettled(ok) ==
    /\ OnImage /\ media.op = "generateImage"
    /\ media' = imageSettled(media, ok)
    /\ UNCHANGED <<Live, chat>>

NextImage ==
    \/ \E text \in Inputs : ImagePrompt(text)
    \/ GenerateImage
    \/ \E ok \in BOOLEAN : ImageSettled(ok)

\* The Image Editing panel.
OnEdit == media.feature = "ImageEdit"

EditPrompt(text) ==
    /\ OnEdit /\ media.prompt # text
    /\ media' = [media EXCEPT !.prompt = text]
    /\ UNCHANGED <<Live, chat>>

EditFile(tooBig) ==
    /\ OnEdit
    /\ media' = handleEditFile(media, tooBig)
    /\ media' # media
    /\ UNCHANGED <<Live, chat>>

\* The Edit Image button, disabled while loading, without an image and
\* with an empty instruction.
Edit ==
    /\ OnEdit /\ ~media.isLoading /\ media.originalImage # NULL /\ media.prompt # ""
    /\ media' = handleEdit(media)
    /\ media'.calls <= MaxCalls
    /\ media' # media
    /\ UNCHANGED <<Live, chat>>

EditSettled(ok) ==
    /\ OnEdit /\ media.op = "editImage"
    /\ media' = editSettled(media, ok)
    /\ UNCHANGED <<Live, chat>>

NextEdit ==
    \/ \E text \in Inputs : EditPrompt(text)
    \/ \E tooBig \in BOOLEAN : EditFile(tooBig)
    \/ Edit
    \/ \E ok \in BOOLEAN : EditSettled(ok)

\* The Video Generation panel.
NextVideo ==
    \/ \E selected \in BOOLEAN : KeyChecked(selected)
    \/ SelectKey
    \/ KeySelected
    \/ \E text \in Inputs : VideoPrompt(text)
    \/ \E tooBig \in BOOLEAN : VideoFile(tooBig)
    \/ \E key \in BOOLEAN : GenerateVideo(key)
    \/ \E done, link \in BOOLEAN : VideoOperation(done, link)
    \/ VideoTimer
    \/ \E ok \in BOOLEAN : VideoFetched(ok)
    \/ VideoBlob
    \/ VideoThrows

\* The Video Generation panel alone.  What generateVideo waits for does
\* happen: the timer fires, the call it awaits is answered or rejected,
\* and the service does not report the operation unfinished for ever.
VideoAnswered ==
    \/ \E done, link \in BOOLEAN : VideoOperation(done, link)
    \/ VideoTimer
    \/ \E ok \in BOOLEAN : VideoFetched(ok)
    \/ VideoBlob
    \/ VideoThrows

VideoFinished ==
    \/ \E link \in BOOLEAN : VideoOperation(TRUE, link)
    \/ VideoThrows

InitVideoPanel == LiveIdle /\ chat = InitChat /\ media = InitVideo

SpecVideo ==
    /\ InitVideoPanel /\ [][NextVideo]_vars
    /\ WF_vars(VideoAnswered)
    /\ SF_vars(VideoFinished)

\* The form panels, one at a time.
Panels == {InitImage, InitEdit, InitVideo}

InitForms == LiveIdle /\ chat = InitChat /\ media \in Panels

NextForms ==
    \/ \E panel \in Panels : SetFeature(panel)
    \/ NextImage
    \/ NextEdit
    \/ NextVideo

SpecForms == InitForms /\ [][NextForms]_vars

\* One captured sample, any value in [-1, 1], through the capture callback.
Samples == (-(SampleGrid * Scale))..(SampleGrid * Scale)

InitQuantize ==
    /\ chat = InitChat /\ media = InitMedia
    /\ st = InitSt
    /\ ref = InitRef
    /\ \E a \in Samples : env = [InitEnv(TRUE) EXCEPT !.inputData = a]
    /\ obs = [heard |-> [k \in Ids |-> NoTurn], audio |-> [k \in Ids |-> FALSE],
              turns |-> <<>>, dropped |-> {}, flushed |-> {}]

NextQuantize == Quantize

SpecQuantize == InitQuantize /\ [][NextQuantize]_vars

----------------------------------------------------------------------------
\* What is alive

SessionPending(s) == s.socket \in {"connecting", "open"} /\ s.thenClose = 0

LiveRemotes(e) == {k \in Ids : SessionPending(e.sessions[k])}

LiveStreams(e) == {k \in Ids : e.streams[k].state = "live"}

RunningContexts(e) ==
    {k \in Ids : e.inputContexts[k].state = "running"}
    \cup {k \in Ids : e.outputContexts[k].state = "running"}

LivePipelines(e) ==
    {n \in DOMAIN e.nodes :
        e.nodes[n].source = "connected" \/ e.nodes[n].processor = "connected"}

\* The sessions that are up: microphone stream live and remote session
\* connecting or open with no close asked of it.
LiveSessions(e) == LiveStreams(e) \cap LiveRemotes(e)

\* Nothing acquired by any startConversation is still in use.
AllReleased(e) ==
    /\ LiveRemotes(e) = {}
    /\ LiveStreams(e) = {}
    /\ LivePipelines(e) = {}
    /\ RunningContexts(e) = {}

\* The steps that run stopConversation.
StopCalled ==
    \/ ToggleStop
    \/ Unmount
    \/ \E k \in Ids : RemoteError(k)
    \/ \E k \in Ids : RemoteClose(k)

----------------------------------------------------------------------------
\* C1: at most one session is live at any time: never two microphone
\* streams feeding two remote sessions, never two capture pipelines.
AtMostOneLiveSession ==
    /\ Cardinality(LiveSessions(env)) <= 1
    /\ Cardinality(LivePipelines(env)) <= 1

\* The controller holds nothing: every ref is null, the playback set is
\* empty and the cursor is 0.
HoldsNothing(r) ==
    /\ r.sessionPromiseRef = NULL /\ r.streamRef = NULL
    /\ r.inputAudioContextRef = NULL /\ r.outputAudioContextRef = NULL
    /\ r.scriptProcessorRef = NULL /\ r.mediaStreamSourceRef = NULL
    /\ r.audioSourcesRef = {} /\ r.nextStartTimeRef = 0

\* Everything the controller held in world w is released in world v.
HeldReleased(w, v) ==
    /\ w.ref.sessionPromiseRef # NULL =>
          ~SessionPending(v.env.sessions[w.ref.sessionPromiseRef])
    /\ w.ref.streamRef # NULL => v.env.streams[w.ref.streamRef].state = "stopped"
    /\ w.ref.scriptProcessorRef # NULL =>
          v.env.nodes[w.ref.scriptProcessorRef].processor = "disconnected"
    /\ w.ref.mediaStreamSourceRef # NULL =>
          v.env.nodes[w.ref.mediaStreamSourceRef].source = "disconnected"
    /\ w.ref.inputAudioContextRef # NULL =>
          v.env.inputContexts[w.ref.inputAudioContextRef].state = "closed"
    /\ w.ref.outputAudioContextRef # NULL =>
          v.env.outputContexts[w.ref.outputAudioContextRef].state = "closed"
    /\ \A c \in w.ref.audioSourcesRef : v.env.sources[c].state = "stopped"

\* C2: after stopConversation is called from Connecting or Active, what the
\* controller held is released (the remote session closed or its close
\* queued on the connect promise, the microphone tracks stopped, the capture
\* nodes disconnected, both audio contexts closed, every source of the
\* playback set stopped), the playback set is empty, the cursor is 0 and
\* the controller is Idle.
StopReleasesSession ==
    [][(StopCalled /\ Status(st) # "Idle") =>
          /\ HeldReleased(World, World')
          /\ HoldsNothing(ref')
          /\ Status(st') = "Idle"]_vars

\* C2 witness: a session that was Active and played a chunk has been
\* stopped: its stream, contexts, nodes, socket and chunk are all released.
StoppedActiveSession ==
    /\ HoldsNothing(ref) /\ Status(st) = "Idle"
    /\ \E k \in Ids :
          /\ env.streams[k].state = "stopped"
          /\ env.inputContexts[k].state = "closed"
          /\ env.outputContexts[k].state = "closed"
          /\ env.sessions[k].socket = "closing"
    /\ \E n \in DOMAIN env.nodes :
          env.nodes[n].source = "disconnected" /\ env.nodes[n].processor = "disconnected"
    /\ \E c \in DOMAIN env.sources : env.sources[c].state = "stopped"

\* No release operation ran twice on the same object.
NoDoubleRelease(e) ==
    /\ \A k \in Ids :
          /\ e.streams[k].stops <= 1
          /\ e.inputContexts[k].closes <= 1
          /\ e.outputContexts[k].closes <= 1
          /\ e.sessions[k].closes + e.sessions[k].thenClose <= 1
    /\ \A n \in DOMAIN e.nodes :
          e.nodes[n].sourceDisconnects <= 1 /\ e.nodes[n].processorDisconnects <= 1
    /\ \A c \in DOMAIN e.sources : e.sources[c].stops <= 1

\* C3: stopConversation is idempotent: in every reachable state a second
\* call in a row leaves the state the first call left, release counters
\* included, the first call releases what the controller held, and no
\* resource is ever released twice.
StopIdempotent ==
    LET once == stopConversation(World)
        twice == stopConversation(once)
    IN  /\ twice = once
        /\ HeldReleased(World, once)
        /\ NoDoubleRelease(once.env)
        /\ NoDoubleRelease(env)

\* C3 witness: stopConversation ran twice on a session that had been
\* Active (once for the unmount, once for the close of its socket) and
\* each of its resources was released once.
StoppedTwice ==
    /\ ~env.mounted
    /\ \E k \in Ids :
          /\ env.sessions[k].socket = "closed" /\ env.sessions[k].closes = 1
          /\ env.streams[k].stops = 1
          /\ env.inputContexts[k].closes = 1
          /\ env.outputContexts[k].closes = 1
    /\ \E n \in DOMAIN env.nodes :
          env.nodes[n].sourceDisconnects = 1 /\ env.nodes[n].processorDisconnects = 1

\* C4: in every state where the controller is Idle no microphone stream,
\* audio context, capture pipeline or remote session is still held.
IdleHoldsNothing == Status(st) = "Idle" => AllReleased(env)

\* The steps on which a remote error, a remote close or the unmount is
\* delivered.
AbnormalEnd ==
    \/ Unmount
    \/ \E k \in Ids : RemoteError(k)
    \/ \E k \in Ids : RemoteClose(k)

\* C5: every remote error callback, every remote close callback and the
\* unmount run stopConversation: after the step the controller is Idle,
\* holds nothing, and what it held is released.
AbnormalEndStops ==
    [][AbnormalEnd =>
          /\ HeldReleased(World, World')
          /\ HoldsNothing(ref')
          /\ Status(st') = "Idle"]_vars

\* C5 witness: the session the controller held failed while it was open,
\* and the error callback released it.
ErrorStoppedSession ==
    /\ HoldsNothing(ref) /\ Status(st) = "Idle"
    /\ \E k \in Ids :
          /\ env.sessions[k].socket = "failed" /\ env.sessions[k].closes = 1
          /\ env.streams[k].state = "stopped"
          /\ env.outputContexts[k].state = "closed"

\* C6: a transport error while the controller is Active sets the error
\* message and tears the session down (the controller is Idle and holds
\* nothing, what it held is released, the failed session is not live) and
\* connects to no new session; the sessions ever connected never outnumber
\* the user's start actions.
ErrorNoReconnect ==
    /\ [](env.connects <= Starts(env))
    /\ [][\A k \in Ids : (RemoteError(k) /\ st.isActive) =>
              /\ st'.error = ConnMessage
              /\ Status(st') = "Idle"
              /\ HoldsNothing(ref')
              /\ HeldReleased(World, World')
              /\ ~SessionPending(env'.sessions[k])
              /\ env'.connects = env.connects]_vars

\* C6 witness: an open session failed while the controller was Active: the
\* message is shown, the controller is Idle and no session was connected
\* in its place.
ErrorShown ==
    /\ st.error = ConnMessage /\ Status(st) = "Idle" /\ HoldsNothing(ref)
    /\ \E k \in Ids :
          /\ env.sessions[k].socket = "failed" /\ env.sessions[k].promise = "resolved"
          /\ env.sessions[k].closes = 1
    /\ env.connects = 1 /\ Starts(env) = 1

\* C7: a fragment delivered by a session after stopConversation asked it
\* to close changes neither the in-progress transcripts nor the transcript
\* history nor the playback set nor the cursor.
StoppedFragmentIgnored ==
    [][\A k \in Ids, m \in TurnFragments :
          (RemoteMessage(k, m) /\ env.sessions[k].socket = "closing") =>
              /\ st' = st
              /\ ref'.audioSourcesRef = ref.audioSourcesRef
              /\ ref'.nextStartTimeRef = ref.nextStartTimeRef]_vars

\* C8: the transcript history is the sequence of completed turns, each
\* holding the user deltas and the AI deltas delivered since the turn
\* before it, concatenated in arrival order.
TurnsCommitted == st.transcriptHistory = obs.turns

\* C9: when a turn of an Active session in which an AI delta and an audio
\* fragment arrived (in either order) and no user delta completes, the turn
\* committed holds the accumulated AI text and an empty user text.
AudioTurnCommitted ==
    [][\A k \in Ids, m \in TurnFragments :
          (/\ RemoteMessage(k, m) /\ m.turn
           /\ st.isActive /\ obs.audio[k]
           /\ Heard(obs, k, m, env.fragments + 1).ai # <<>>
           /\ Heard(obs, k, m, env.fragments + 1).user = <<>>) =>
              /\ Len(st'.transcriptHistory) = Len(st.transcriptHistory) + 1
              /\ st'.transcriptHistory[Len(st'.transcriptHistory)] =
                    [user |-> <<>>, ai |-> Heard(obs, k, m, env.fragments + 1).ai]]_vars

\* C10: every chunk is started no earlier than the output clock's time at
\* that moment and no earlier than the end of the chunk scheduled before
\* it (unless that chunk was flushed).
ChunksSequential ==
    \A c \in DOMAIN env.sources :
        /\ env.sources[c].start >= env.sources[c].at
        /\ (c > 1 /\ env.sources[c - 1].state # "stopped") =>
              env.sources[c].start >= env.sources[c - 1].start + env.sources[c - 1].duration

\* The steps on which the interrupted branch of handleMessage runs: at once
\* for a fragment with no audio to decode, after the decode otherwise.
InterruptionProcessed ==
    \/ \E k \in Ids, m \in PlayFragments :
          /\ RemoteMessage(k, m) /\ m.interrupted
          /\ ~(m.audio > 0 /\ ref.outputAudioContextRef # NULL)
    \/ \E d \in env.decoding : DecodeDone(d) /\ d.interrupted

ArrivalOrderKept ==
    \A c1, c2 \in DOMAIN env.sources :
        (/\ env.sources[c1].n < env.sources[c2].n
         /\ env.sources[c1].state # "stopped"
         /\ env.sources[c2].state # "stopped") =>
            env.sources[c1].start < env.sources[c2].start

\* C13: the frames forwarded to a session are in capture order, a frame is
\* forwarded only to a session that has reported open (until then it waits
\* on the connect promise), and a live pipeline can always capture its
\* next frame: it waits for no acknowledgement.
FramesInOrder ==
    /\ \A k \in Ids :
          /\ \A i, j \in DOMAIN env.outbox[k].sent :
                i < j => env.outbox[k].sent[i] < env.outbox[k].sent[j]
          /\ env.outbox[k].sent # <<>> => env.sessions[k].promise = "resolved"
          /\ env.outbox[k].queued # <<>> => env.sessions[k].promise = "pending"
    /\ \A n \in DOMAIN env.nodes :
          (/\ env.frames < MaxFrames
           /\ env.nodes[n].source = "connected" /\ env.nodes[n].processor = "connected"
           /\ env.inputContexts[env.nodes[n].context].state = "running") =>
              ENABLED Capture(n)

\* C13 witness: an open session was sent two frames.
TwoFramesSent ==
    \E k \in Ids :
        /\ env.sessions[k].socket = "open"
        /\ Len(env.outbox[k].sent) >= 2

\* The status changes the contract allows; Closing is the inside of
\* stopConversation, and a start that fails goes back to Idle.
Allowed ==
    {<<"Idle", "Connecting">>, <<"Connecting", "Active">>, <<"Active", "Idle">>,
     <<"Connecting", "Idle">>}

\* C14: the status moves only along Idle -> Connecting -> Active -> Idle
\* (or back to Idle from Connecting), never from Idle straight to Active,
\* and the open callback of a session that stopConversation has already
\* asked to close neither changes the status nor starts a capture pipeline.
StatusPath ==
    [][/\ Status(st') # Status(st) => <<Status(st), Status(st')>> \in Allowed
       /\ \A k \in Ids :
             (RemoteOpen(k) /\ env.sessions[k].thenClose > 0) =>
                 Status(st') = Status(st) /\ env'.nodes = env.nodes]_vars

\* C15: when getUserMedia is denied, the call opens no remote session and
\* creates no stream, context or capture node, the panel shows the
\* microphone message and is Idle, and the call is over: nothing asks for
\* the microphone again until the user starts again.
DeniedLeavesIdle ==
    [][\A k \in Ids : MicDenied(k) =>
          /\ env'.sessions = env.sessions /\ env'.connects = env.connects
          /\ env'.streams = env.streams /\ env'.nodes = env.nodes
          /\ env'.inputContexts = env.inputContexts
          /\ env'.outputContexts = env.outputContexts
          /\ env'.calls[k].pc = "done" /\ Starts(env') = Starts(env)
          /\ env.mounted => st'.error = MicMessage /\ Status(st') = "Idle"]_vars

\* C16: when the decode of a fragment fails, nothing but that fragment is
\* lost: no chunk is started or added to the playback set, the status, the
\* refs and the capture pipeline are as they were, the fragments still
\* being decoded stay so, and a fragment that arrives later is decoded and
\* scheduled like any other.
DecodeFailureDropsOne ==
    /\ [][\A d \in env.decoding : DecodeFailed(d) =>
              /\ env'.sources = env.sources
              /\ st' = st /\ ref' = ref
              /\ env'.nodes = env.nodes /\ env'.sessions = env.sessions
              /\ env'.streams = env.streams
              /\ env'.decoding = env.decoding \ {d}]_vars
    /\ [][\A k \in Ids, m \in PlayFragments :
              (/\ RemoteMessage(k, m) /\ obs.dropped # {}
               /\ m.audio > 0 /\ ref.outputAudioContextRef # NULL) =>
                  \E d \in env'.decoding : d.n = env.fragments + 1]_vars
    /\ [](\A c \in DOMAIN env.sources : env.sources[c].n \notin obs.dropped)

\* C16 witness: the decode of a fragment failed in an Active session, and
\* the chunk of a fragment that arrived after it is playing.
PlayedAfterFailure ==
    /\ st.isActive
    /\ \E n \in DOMAIN env.nodes :
          env.nodes[n].source = "connected" /\ env.nodes[n].processor = "connected"
    /\ \E c \in ref.audioSourcesRef, f \in obs.dropped :
          env.sources[c].n > f /\ env.sources[c].state = "started"

\* C17: the value stored for a sample s in [-1, 1], divided by 32768, is
\* within one quantization step (1 / 32768) of s.
QuantizedWithinStep ==
    env.frames = 1 =>
        /\ env.int16 * SampleGrid - env.inputData <= SampleGrid
        /\ env.inputData - env.int16 * SampleGrid <= SampleGrid

\* C18: when a session is started, the in-progress turn is empty: both
\* partial transcripts hold no text.
StartsWithEmptyTurn ==
    [][ToggleStart => st'.userTranscript = <<>> /\ st'.aiTranscript = <<>>]_vars

\* C19: after a turn-complete fragment both partial transcripts are empty,
\* also when the fragment carried a delta; at any time they hold exactly
\* the deltas delivered since the last turn-complete, so a later delta is
\* part of the next turn only; and the turns already in the history are
\* never changed.
TurnCompleteResets ==
    /\ [](\A k \in Ids : env.sessions[k].promise # "none" =>
              /\ st.aiTranscript = obs.heard[k].ai
              /\ st.userTranscript = obs.heard[k].user)
    /\ [][\A k \in Ids, m \in TurnFragments : (RemoteMessage(k, m) /\ m.turn) =>
              st'.aiTranscript = <<>> /\ st'.userTranscript = <<>>]_vars
    /\ [][/\ Len(st'.transcriptHistory) >= Len(st.transcriptHistory)
           /\ SubSeq(st'.transcriptHistory, 1, Len(st.transcriptHistory))
                 = st.transcriptHistory]_vars

\* C19 witness: a turn with AI text was completed and a delta that arrived
\* after it is alone in the partial transcript.
DeltaAfterTurn ==
    /\ Len(st.transcriptHistory) = 1 /\ Len(obs.turns) = 1
    /\ obs.turns[1].ai # <<>>
    /\ Len(st.aiTranscript) = 1
    /\ \A i \in DOMAIN obs.turns[1].ai : obs.turns[1].ai[i] < st.aiTranscript[1]

\* C20: an interruption discards the in-progress turn: once a fragment
\* that signals an interruption (and carries no delta) is processed in an
\* Active session, both partial transcripts are empty, so no turn committed
\* later can hold text accumulated before the interruption.
InterruptionDiscardsTurn ==
    [][\A k \in Ids, m \in TurnFragments :
          (RemoteMessage(k, m) /\ st.isActive
           /\ m.interrupted /\ ~m.ai /\ ~m.user) =>
              st'.aiTranscript = <<>> /\ st'.userTranscript = <<>>]_vars

\* C21: when geolocation is denied, one system message is appended to the
\* chat and nothing else in the list changes, Maps mode is off, and no
\* location request is made; a request is only ever made on the step on
\* which the user switches Maps mode on, one per switch.
GeoDeniedOnce ==
    /\ [][GeoDenied =>
              /\ chat'.messages = Append(chat.messages, LocationMessage)
              /\ ~chat'.useMaps
              /\ chat'.geoRequests = chat.geoRequests]_vars
    /\ [][chat'.geoRequests # chat.geoRequests =>
              /\ ToggleMaps /\ ~chat.useMaps /\ chat'.useMaps
              /\ chat'.geoRequests = chat.geoRequests + 1]_vars

\* C21 witness: Maps mode was switched on once, the request was denied:
\* the message is in the list, Maps mode is off and nothing is pending.
GeoDeniedShown ==
    /\ chat.geoRequests = 1 /\ chat.geoPending = 0 /\ chat.geoLocation = NULL
    /\ ~chat.useMaps
    /\ chat.messages = <<Greeting, LocationMessage>>

\* C22: when video generation fails with an error whose message contains
\* 'Requested entity was not found', the panel shows the invalid-key message
\* and apiKeySelected is false; on any other failure it shows the generic
\* message and apiKeySelected is as it was.
KeyErrorResets ==
    [][/\ \A message \in {NotInitialized} \cup ApiErrors \cup FetchErrors :
             VideoRejected(message) =>
                 IF message \in {<<NotFound, ".">>, <<"404 ", NotFound>>}
                 THEN /\ media'.error = InvalidKeyMessage
                      /\ ~media'.apiKeySelected
                 ELSE /\ media'.error = VideoFailedMessage
                      /\ media'.apiKeySelected = media.apiKeySelected
       /\ VideoOperation(TRUE, FALSE) \/ VideoFetched(FALSE) =>
             /\ media'.error = VideoFailedMessage
             /\ media'.apiKeySelected = media.apiKeySelected]_vars

\* C22 witness: a generation failed with 'Requested entity was not found'
\* and the panel asks for a key again.
KeyErrorShown ==
    /\ media.feature = "VideoGen" /\ media.calls > 0 /\ ~media.isLoading
    /\ media.error = InvalidKeyMessage /\ ~media.apiKeySelected

\* C23: every chunk in the active playback set has been started and has
\* neither ended nor been stopped; a chunk enters the set on the step that
\* schedules it and leaves it on the step on which it ends by itself; when
\* every scheduled chunk has ended the set is empty.
ActiveSetTracksPlaying ==
    /\ [](\A c \in ref.audioSourcesRef :
              c \in DOMAIN env.sources /\ env.sources[c].state = "started")
    /\ [][\A d \in env.decoding :
              DecodeDone(d) /\ ~d.interrupted =>
                  /\ Len(env'.sources) = Len(env.sources) + 1
                  /\ env'.sources[Len(env'.sources)].state = "started"
                  /\ ref'.audioSourcesRef =
                         ref.audioSourcesRef \cup {Len(env'.sources)}]_vars
    /\ [][\A c \in DOMAIN env.sources :
              ChunkEnded(c) =>
                  /\ c \in ref.audioSourcesRef
                  /\ ref'.audioSourcesRef = ref.audioSourcesRef \ {c}]_vars
    /\ []((\A c \in DOMAIN env.sources : env.sources[c].state = "ended")
              => ref.audioSourcesRef = {})

\* C23 witness: two chunks were scheduled, the first has ended and left the
\* set, the second is playing and is the set.
OneEndedOnePlaying ==
    /\ Len(env.sources) = 2
    /\ env.sources[1].state = "ended" /\ env.sources[2].state = "started"
    /\ ref.audioSourcesRef = {2}

\* stopConversation has asked session k to close, at once or on its promise.
TornDown(k) == env.sessions[k].closes > 0 \/ env.sessions[k].thenClose > 0

\* A callback of session k runs.
Callback(k) ==
    \/ RemoteOpen(k)
    \/ RemoteError(k)
    \/ RemoteClose(k)
    \/ \E m \in LifeFragments : RemoteMessage(k, m)

\* C24: a callback of a session that stopConversation has already torn down
\* leaves every later start as it is: its stream, contexts and remote
\* session are untouched, the status does not change (no teardown of the
\* later session, no Active before its own open), and no capture pipeline
\* is built.
StaleCallbacksInert ==
    [][\A k \in Ids :
          (/\ TornDown(k) /\ Callback(k)
           /\ \E j \in Ids : j > k /\ env.calls[j].pc # "none")
          =>
          /\ \A j \in Ids : j > k =>
                /\ env'.streams[j] = env.streams[j]
                /\ env'.inputContexts[j] = env.inputContexts[j]
                /\ env'.outputContexts[j] = env.outputContexts[j]
                /\ env'.sessions[j] = env.sessions[j]
          /\ Status(st') = Status(st)
          /\ Len(env'.nodes) = Len(env.nodes)]_vars

\* C25: a mounted panel that is Connecting is at some later time Active or
\* Idle, whatever the outcome of the start: it never stays Connecting for
\* ever.
StartLeavesConnecting ==
    (env.mounted /\ Status(st) = "Connecting")
        ~> (~env.mounted \/ Status(st) # "Connecting")

\* C26: a fragment whose decode was in flight when an interruption or
\* stopConversation was processed is dropped: when its decode resolves no
\* chunk is created, started or added to the playback set and the cursor
\* stays where the flush left it.
FlushedDecodeDropped ==
    [][\A d \in env.decoding :
          DecodeDone(d) /\ d.n \in obs.flushed =>
              /\ env'.sources = env.sources
              /\ ref'.audioSourcesRef = ref.audioSourcesRef
              /\ ref'.nextStartTimeRef = ref.nextStartTimeRef]_vars

\* C27: when a send completes, the '...' placeholder is replaced by the one
\* AI message (the response or the apology) and every other message stays
\* where it is, also a system message appended while the send was pending;
\* no '...' is in the list when isLoading is false.
PlaceholderReplaced ==
    /\ [][\A message \in {Response, Apology} :
              SendDone(message) =>
                  \E i \in DOMAIN chat.messages :
                      /\ chat.messages[i] = Thinking
                      /\ chat'.messages = [chat.messages EXCEPT ![i] = message]]_vars
    /\ [](~chat.isLoading =>
              \A i \in DOMAIN chat.messages : chat.messages[i] # Thinking)

\* A click on the button of a form panel that its validation rejects.
Rejected ==
    \/ GenerateImage /\ Trim(media.prompt) = ""
    \/ Edit /\ Trim(media.prompt) = ""
    \/ \E key \in BOOLEAN : GenerateVideo(key) /\ Trim(media.prompt) = ""

\* C28: in the image generation, image editing and video generation panels
\* isLoading is true exactly while a service call of the panel is
\* outstanding; a click that validation rejects makes no call and leaves
\* isLoading false; when the call is over, however it ended, isLoading is
\* false.
LoadingWhileOutstanding ==
    /\ [](media.feature \in {"ImageGen", "ImageEdit", "VideoGen"} =>
              (media.isLoading <=> media.op # "none"))
    /\ [][Rejected =>
              /\ media'.calls = media.calls /\ media'.op = "none"
              /\ ~media'.isLoading]_vars
    /\ [][(media'.feature = media.feature /\ media'.op = "none" /\ media.op # "none")
              => ~media'.isLoading]_vars

\* C28 witness: the editing panel made two calls, the second failed, and a
\* click with a blank instruction was rejected after it: the panel is not
\* loading and the validation message shows.
EditRejectedAfterCalls ==
    /\ media.feature = "ImageEdit" /\ media.calls = 2 /\ media.op = "none"
    /\ ~media.isLoading /\ media.error = EditPromptMessage

\* C29: in the image generation and video generation panels the error and
\* the result are never both set.
ErrorOrResult ==
    /\ media.feature = "ImageGen" =>
          ~(media.error # NoError /\ media.generatedImage # NULL)
    /\ media.feature = "VideoGen" =>
          ~(media.error # NoError /\ media.generatedVideo # NULL)

\* The step on which handleGenerate of the video panel is over.
VideoOver == media.op # "none" /\ media'.op = "none"

\* C30: a video generation that is loading is at some later time not
\* loading any more, and on the step on which it is over isLoading is
\* false, the progress message is empty and exactly one of the result and
\* the error is set.
VideoEventuallyDone ==
    /\ media.isLoading ~> ~media.isLoading
    /\ [][VideoOver =>
              /\ ~media'.isLoading /\ media'.progressMessage = ""
              /\ (media'.generatedVideo # NULL) # (media'.error # NoError)]_vars

====
